---- MODULE Spec2Model ----
(***************************************************************************)
(* Event delivery and peer cleanup of enet-rs (src/src/event.rs).          *)
(*                                                                         *)
(* The Host owns a table of peer slots.  Servicing the Host turns one raw  *)
(* transport event (ENetEvent) into an Event bound to a peer slot; the     *)
(* application inspects the Event and completes it, either by take_type    *)
(* or by letting it drop.  Completing a Disconnect Event cleans the peer   *)
(* up: its application data is dropped and its PeerID is invalidated.      *)
(***************************************************************************)
EXTENDS Integers, FiniteSets, Sequences, Bags, TLC

\* ---------------------------------------------------------------- bounds
NumPeers == 2       \* peer slots of the Host
MaxGen == 2         \* the engine reports at most MaxGen disconnects while the
                    \* generations of the slots add up to less than MaxGen
MaxRawKind == 4     \* raw event kinds 0..MaxRawKind; those above RECEIVE are unrecognized

\* ------------------------------------------------------ program constants
ENET_EVENT_TYPE_NONE == 0
ENET_EVENT_TYPE_CONNECT == 1
ENET_EVENT_TYPE_DISCONNECT == 2
ENET_EVENT_TYPE_RECEIVE == 3

\* ------------------------------------------------------------ value sets
Slots == 0 .. (NumPeers - 1)
RawKinds == 0 .. MaxRawKind
Reasons == {0, 7}                  \* u32 data of a Disconnect
Channels == {0, 3}                 \* u8 channel ids
SysPackets == {<<1, 2>>}           \* raw packets, by their bytes
NullPacket == <<>>                 \* the packet field of a raw event that has none
Payloads == {"D"}                  \* application data T attached to a peer
NullPeer == -1                     \* the null peer handle of a raw event without a peer

\* Option<X>
None == {}
Some(x) == {x}
Unwrap(o) == CHOOSE x \in o : TRUE

\* ------------------------------------------------------------- the state
VARIABLES
    peers,      \* Host's slot table: slot -> [generation, data: Option<T>]
    event,      \* Option<Event>: the Event the application currently owns
    panicked,   \* from_sys_event panicked; the program has stopped
    held,       \* Option<PeerID>: a PeerID the application copied out and kept
    ret,        \* Option: what the last accessor of the live Event returned
    sys,        \* history: the raw event of the latest poll
    derefs,     \* history: the raw peer handles the latest poll dereferenced
    heldStale,  \* history: a Disconnect Event on held's slot was completed since
    last,       \* history: how the latest Event ended, until the next poll
    cleanups,   \* history: bag of the PeerIDs whose Events invoked the peer cleanup
    packet,     \* Option<Packet>: the Packet the application took and still owns
    dangling    \* history: the Packet the application owns has been destroyed

vars == <<peers, event, panicked, held, ret, sys, derefs, heldStale, last,
          cleanups, packet, dangling>>

\* ------------------------------------------------------------- EventType
Connect == [kind |-> "Connect"]
Disconnect(d) == [kind |-> "Disconnect", data |-> d]
Receive(c, p) == [kind |-> "Receive", channel_id |-> c, packet |-> p]

\* Packet::from_sys_packet wraps the raw packet; the bytes are the raw packet's.
Packet_from_sys_packet(p) == [inner |-> p]
Packet_data(pk) == pk.inner

\* ------------------------------------------------------- Peer and Host
\* Peer::cleanup_after_disconnect: drops the application data and advances
\* the slot generation, so that the PeerIDs of this connection are stale.
Peer_cleanup_after_disconnect(p) ==
    [generation |-> p.generation + 1, data |-> None]

\* Host::peer_id: the PeerID of a slot, stamped with its current generation.
Host_peer_id(P, s) == [index |-> s, generation |-> P[s].generation]

\* Host::peer: resolve a PeerID; None is the lookup error.
Host_peer(P, id) ==
    IF id.index \in DOMAIN P /\ P[id.index].generation = id.generation
    THEN Some(id.index)
    ELSE None

\* ------------------------------------------------------- raw events
\* ENetEvent as the transport engine fills it in.
SysEvents ==
    { [type_ |-> k, peer |-> s, data |-> d, channelID |-> c, packet |-> p] :
        k \in RawKinds, s \in Slots \cup {NullPeer},
        d \in Reasons \cup {0}, c \in Channels \cup {0},
        p \in SysPackets \cup {NullPacket} }

\* The engine names a peer on every event but NONE, and sets data only on
\* DISCONNECT, channelID and packet only on RECEIVE.
WellFormed(e) ==
    /\ e.type_ = ENET_EVENT_TYPE_NONE <=> e.peer = NullPeer
    /\ e.type_ # ENET_EVENT_TYPE_DISCONNECT => e.data = 0
    /\ e.type_ # ENET_EVENT_TYPE_RECEIVE => e.channelID = 0 /\ e.packet = NullPacket
    /\ e.type_ = ENET_EVENT_TYPE_DISCONNECT => e.data \in Reasons
    /\ e.type_ = ENET_EVENT_TYPE_RECEIVE =>
          e.channelID \in Channels /\ e.packet # NullPacket

\* ------------------------------------------------------- Event
\* Mutant: the PeerID is built from the slot index alone.
from_sys_event_NoGeneration(event_sys, P) ==
    IF event_sys.type_ = ENET_EVENT_TYPE_NONE
    THEN [panic |-> FALSE, event |-> None, peers |-> P, derefs |-> {}]
    ELSE
        LET peer == event_sys.peer
            peer_id == [index |-> event_sys.peer, generation |-> 0]
            type == IF event_sys.type_ = ENET_EVENT_TYPE_CONNECT THEN Connect
                    ELSE IF event_sys.type_ = ENET_EVENT_TYPE_DISCONNECT
                    THEN Disconnect(event_sys.data)
                    ELSE Receive(event_sys.channelID,
                                 Packet_from_sys_packet(event_sys.packet))
        IN  IF event_sys.type_ > ENET_EVENT_TYPE_RECEIVE
            THEN [panic |-> TRUE, event |-> None, peers |-> P,
                  derefs |-> {event_sys.peer}]
            ELSE [panic |-> FALSE,
                  event |-> Some([peer |-> peer, peer_id |-> peer_id,
                                  type |-> type]),
                  peers |-> P, derefs |-> {event_sys.peer}]

\* Mutant: an unrecognized kind is skipped like NONE.
from_sys_event_SilentUnknown(event_sys, P) ==
    IF event_sys.type_ \notin {ENET_EVENT_TYPE_CONNECT,
                               ENET_EVENT_TYPE_DISCONNECT,
                               ENET_EVENT_TYPE_RECEIVE}
    THEN [panic |-> FALSE, event |-> None, peers |-> P,
          derefs |-> IF event_sys.type_ = ENET_EVENT_TYPE_NONE THEN {}
                     ELSE {event_sys.peer}]
    ELSE [panic |-> FALSE,
          event |-> Some([peer |-> event_sys.peer,
                          peer_id |-> Host_peer_id(P, event_sys.peer),
                          type |-> IF event_sys.type_ = ENET_EVENT_TYPE_CONNECT
                                   THEN Connect
                                   ELSE IF event_sys.type_ =
                                           ENET_EVENT_TYPE_DISCONNECT
                                   THEN Disconnect(event_sys.data)
                                   ELSE Receive(event_sys.channelID,
                                       Packet_from_sys_packet(event_sys.packet))]),
          peers |-> P, derefs |-> {event_sys.peer}]

\* Mutant: the peer handle is resolved before the kind is looked at.
from_sys_event_ResolveFirst(event_sys, P) ==
    IF event_sys.type_ = ENET_EVENT_TYPE_NONE
    THEN [panic |-> FALSE, event |-> None, peers |-> P,
          derefs |-> {event_sys.peer}]
    ELSE from_sys_event_SilentUnknown(event_sys, P)

\* Mutant: a Disconnect is surfaced as a Connect (match arms confused).
from_sys_event_WrongArm(event_sys, P) ==
    IF event_sys.type_ = ENET_EVENT_TYPE_NONE
    THEN [panic |-> FALSE, event |-> None, peers |-> P, derefs |-> {}]
    ELSE
        LET peer == event_sys.peer
            peer_id == Host_peer_id(P, event_sys.peer)
            type == IF event_sys.type_ = ENET_EVENT_TYPE_RECEIVE
                    THEN Receive(event_sys.channelID,
                                 Packet_from_sys_packet(event_sys.packet))
                    ELSE Connect
        IN  IF event_sys.type_ > ENET_EVENT_TYPE_RECEIVE
            THEN [panic |-> TRUE, event |-> None, peers |-> P,
                  derefs |-> {event_sys.peer}]
            ELSE [panic |-> FALSE,
                  event |-> Some([peer |-> peer, peer_id |-> peer_id,
                                  type |-> type]),
                  peers |-> P, derefs |-> {event_sys.peer}]

\* Mutant: a Disconnect cleans the peer up as soon as its Event is built.
from_sys_event_EagerCleanup(event_sys, P) ==
    IF event_sys.type_ = ENET_EVENT_TYPE_NONE
    THEN [panic |-> FALSE, event |-> None, peers |-> P, derefs |-> {}]
    ELSE
        LET peer == event_sys.peer
            peer_id == Host_peer_id(P, event_sys.peer)
            type == IF event_sys.type_ = ENET_EVENT_TYPE_CONNECT THEN Connect
                    ELSE IF event_sys.type_ = ENET_EVENT_TYPE_DISCONNECT
                    THEN Disconnect(event_sys.data)
                    ELSE Receive(event_sys.channelID,
                                 Packet_from_sys_packet(event_sys.packet))
        IN  IF event_sys.type_ > ENET_EVENT_TYPE_RECEIVE
            THEN [panic |-> TRUE, event |-> None, peers |-> P,
                  derefs |-> {event_sys.peer}]
            ELSE [panic |-> FALSE,
                  event |-> Some([peer |-> peer, peer_id |-> peer_id,
                                  type |-> type]),
                  peers |-> IF event_sys.type_ = ENET_EVENT_TYPE_DISCONNECT
                            THEN [P EXCEPT ![peer] =
                                     Peer_cleanup_after_disconnect(@)]
                            ELSE P,
                  derefs |-> {event_sys.peer}]

\* Event::from_sys_event.  [panic, event: Option<Event>, peers, derefs]: the
\* outcome, the slot table after it, and the raw peer handles it dereferenced
\* (Peer::new_mut and Host::peer_id, both after the NONE check).
from_sys_event(event_sys, P) ==
    IF event_sys.type_ = ENET_EVENT_TYPE_NONE
    THEN [panic |-> FALSE, event |-> None, peers |-> P, derefs |-> {}]
    ELSE
        LET peer == event_sys.peer
            peer_id == Host_peer_id(P, event_sys.peer)
            handles == {event_sys.peer}
        IN  IF event_sys.type_ = ENET_EVENT_TYPE_CONNECT
            THEN [panic |-> FALSE,
                  event |-> Some([peer |-> peer, peer_id |-> peer_id,
                                  type |-> Connect]),
                  peers |-> P, derefs |-> handles]
            ELSE IF event_sys.type_ = ENET_EVENT_TYPE_DISCONNECT
            THEN [panic |-> FALSE,
                  event |-> Some([peer |-> peer, peer_id |-> peer_id,
                                  type |-> Disconnect(event_sys.data)]),
                  peers |-> P, derefs |-> handles]
            ELSE IF event_sys.type_ = ENET_EVENT_TYPE_RECEIVE
            THEN [panic |-> FALSE,
                  event |-> Some([peer |-> peer, peer_id |-> peer_id,
                                  type |-> Receive(event_sys.channelID,
                                      Packet_from_sys_packet(event_sys.packet))]),
                  peers |-> P, derefs |-> handles]
            ELSE [panic |-> TRUE, event |-> None, peers |-> P,
                  derefs |-> handles]

\* One invocation of Peer::cleanup_after_disconnect by an Event: the PeerID
\* the Event carries and the generation its slot had at that moment.
Call(self, P) == [id |-> self.peer_id, at |-> P[self.peer].generation]

\* Mutant: the cleanup runs for every kind of Event.
cleanup_after_disconnect_AnyKind(self, P) ==
    [peers |-> [P EXCEPT ![self.peer] = Peer_cleanup_after_disconnect(@)],
     calls |-> <<Call(self, P)>>]

\* Mutant: the Disconnect arm does nothing.
cleanup_after_disconnect_Never(self, P) == [peers |-> P, calls |-> <<>>]

\* Mutant: the cleanup of a Disconnect reaches every peer of the Host.
cleanup_after_disconnect_AllPeers(self, P) ==
    IF self.type.kind = "Disconnect"
    THEN [peers |-> [s \in DOMAIN P |-> Peer_cleanup_after_disconnect(P[s])],
          calls |-> <<Call(self, P)>>]
    ELSE [peers |-> P, calls |-> <<>>]

\* Event::cleanup_after_disconnect.  [peers, calls]: the slot table after it,
\* and its invocations of Peer::cleanup_after_disconnect.
cleanup_after_disconnect(self, P) ==
    IF self.type.kind = "Disconnect"
    THEN [peers |-> [P EXCEPT ![self.peer] = Peer_cleanup_after_disconnect(@)],
          calls |-> <<Call(self, P)>>]
    ELSE [peers |-> P, calls |-> <<>>]

\* The Packets an EventType owns.
PacketsIn(type) == IF type.kind = "Receive" THEN <<type.packet>> ELSE <<>>

\* Mutant: no Drop implementation.
drop_NoCleanup(self, P) ==
    [peers |-> P, calls |-> <<>>, destroyed |-> PacketsIn(self.type)]

\* Drop for Event: the cleanup, after which the fields of the Event are
\* dropped, and with r#type the Packet it owns.  [peers, calls, destroyed]
drop(self, P) ==
    LET c == cleanup_after_disconnect(self, P)
    IN  [peers |-> c.peers, calls |-> c.calls,
         destroyed |-> PacketsIn(self.type)]

\* One step of take_type, with the kind r#type has when it is taken.
Step(op, self) == [op |-> op, kind |-> self.type.kind]

\* Mutant: the swap comes first, so the cleanup is decided on the placeholder.
take_type_NoCleanup(self, P) ==
    LET type == self.type
        swapped == [self EXCEPT !.type = Connect]
        c == cleanup_after_disconnect(swapped, P)
    IN  [peers |-> c.peers, calls |-> c.calls, ret |-> type,
         dropRan |-> FALSE, self |-> None,
         destroyed |-> <<>>, leaked |-> PacketsIn(swapped.type),
         steps |-> <<Step("swap", swapped), Step("cleanup", swapped),
                     Step("forget", swapped)>>]

\* Mutant: what is left in the Event after the swap is returned, and the
\* type taken out is dropped at the end of the function.
take_type_ReturnsPlaceholder(self, P) ==
    LET c == cleanup_after_disconnect(self, P)
        swapped == [self EXCEPT !.type = Connect]
    IN  [peers |-> c.peers, calls |-> c.calls, ret |-> swapped.type,
         dropRan |-> FALSE, self |-> None,
         destroyed |-> PacketsIn(self.type), leaked |-> <<>>,
         steps |-> <<Step("cleanup", self), Step("swap", swapped),
                     Step("forget", swapped)>>]

\* Mutant: take_type borrows the Event instead of consuming it.
take_type_KeepsSelf(self, P) ==
    LET c == cleanup_after_disconnect(self, P)
        swapped == [self EXCEPT !.type = Connect]
    IN  [peers |-> c.peers, calls |-> c.calls, ret |-> self.type,
         dropRan |-> FALSE, self |-> Some(swapped),
         destroyed |-> <<>>, leaked |-> <<>>,
         steps |-> <<Step("cleanup", self), Step("swap", swapped)>>]

\* Mutant: a copy of r#type is returned, with neither swap nor forget, so
\* the destructor runs on the Event as it was.
take_type_NoSwapNoForget(self, P) ==
    LET c == cleanup_after_disconnect(self, P)
        d == drop(self, c.peers)
    IN  [peers |-> d.peers, calls |-> c.calls \o d.calls, ret |-> self.type,
         dropRan |-> TRUE, self |-> None,
         destroyed |-> d.destroyed, leaked |-> <<>>,
         steps |-> <<Step("cleanup", self), Step("drop", self)>>]

\* Event::take_type.  Cleanup, then swap r#type with Connect, then forget
\* self; were self not forgotten, its destructor would run on what is left.
\* [peers, calls, ret, dropRan, self: Option<Event>, destroyed, leaked, steps]:
\* ret is moved to the caller, destroyed are the Packets dropped on the way,
\* leaked the Packets the forgotten Event still owns.
take_type(self, P) ==
    LET c == cleanup_after_disconnect(self, P)
        type == self.type
        swapped == [self EXCEPT !.type = Connect]
        forgotten == TRUE
        d == IF forgotten
             THEN [peers |-> c.peers, calls |-> <<>>, destroyed |-> <<>>]
             ELSE drop(swapped, c.peers)
    IN  [peers |-> d.peers, calls |-> c.calls \o d.calls, ret |-> type,
         dropRan |-> ~forgotten, self |-> None,
         destroyed |-> d.destroyed,
         leaked |-> IF forgotten THEN PacketsIn(swapped.type) ELSE <<>>,
         steps |-> <<Step("cleanup", self), Step("swap", swapped),
                     Step("forget", swapped)>>]

\* ------------------------------------------------------- initial state
NoSys == [type_ |-> ENET_EVENT_TYPE_NONE, peer |-> NullPeer, data |-> 0,
          channelID |-> 0, packet |-> NullPacket]
NoLast == [how |-> "none"]

Init ==
    /\ peers = [s \in Slots |-> [generation |-> 0, data |-> None]]
    /\ event = None
    /\ panicked = FALSE
    /\ held = None
    /\ ret = None
    /\ sys = NoSys
    /\ derefs = {}
    /\ heldStale = FALSE
    /\ last = NoLast
    /\ cleanups = EmptyBag
    /\ packet = None
    /\ dangling = FALSE

\* ------------------------------------------------------- actions
\* Mutant: the Host can be polled while an Event is outstanding.
HostBorrowFree_Shared == TRUE

\* The generations of the slots in S, added up.
RECURSIVE TotalGen(_, _)
TotalGen(P, S) ==
    IF S = {} THEN 0
    ELSE LET s == CHOOSE x \in S : TRUE
         IN  P[s].generation + TotalGen(P, S \ {s})

\* The Host hands out one Event at a time: the Event borrows the Host.
HostBorrowFree == event = None

\* Host::service polls the engine and builds the Event.
Service(event_sys) ==
    /\ ~panicked
    /\ HostBorrowFree
    /\ WellFormed(event_sys)
    /\ event_sys.type_ = ENET_EVENT_TYPE_DISCONNECT
          => TotalGen(peers, Slots) < MaxGen
    /\ LET r == from_sys_event(event_sys, peers)
       IN  /\ event' = r.event
           /\ panicked' = r.panic
           /\ peers' = r.peers
           /\ derefs' = r.derefs
    /\ sys' = event_sys
    /\ ret' = None
    /\ last' = NoLast
    /\ UNCHANGED <<held, heldStale, cleanups, packet, dangling>>

Live == ~panicked /\ event # None
Self == Unwrap(event)

\* Event::peer
PeerRef ==
    /\ Live
    /\ ret' = Some([op |-> "peer", val |-> peers[Self.peer]])
    /\ UNCHANGED <<peers, event, panicked, held, sys, derefs, heldStale, last, cleanups,
                   packet, dangling>>

\* Event::peer_mut, through which the application attaches or takes the data.
PeerMut(d) ==
    /\ Live
    /\ peers' = [peers EXCEPT ![Self.peer].data = d]
    /\ ret' = None
    /\ UNCHANGED <<event, panicked, held, sys, derefs, heldStale, last, cleanups,
                   packet, dangling>>

\* Event::peer_id; the application keeps the copy.
PeerId ==
    /\ Live
    /\ held' = Some(Self.peer_id)
    /\ heldStale' = FALSE
    /\ ret' = Some([op |-> "peer_id", val |-> Self.peer_id])
    /\ UNCHANGED <<peers, event, panicked, sys, derefs, last, cleanups,
                   packet, dangling>>

\* Mutant: r#type() takes the type out and leaves the placeholder behind.
Type_Takes ==
    /\ Live
    /\ ret' = Some([op |-> "type", val |-> Self.type])
    /\ event' = Some([Self EXCEPT !.type = Connect])
    /\ UNCHANGED <<peers, panicked, held, sys, derefs, heldStale, last, cleanups,
                   packet, dangling>>

\* Event::type
Type ==
    /\ Live
    /\ ret' = Some([op |-> "type", val |-> Self.type])
    /\ UNCHANGED <<peers, event, panicked, held, sys, derefs, heldStale, last, cleanups,
                   packet, dangling>>

\* The bag b with the PeerIDs of the invocations in calls added.
Record(b, calls) ==
    b (+) [id \in {calls[i].id : i \in DOMAIN calls} |->
              Cardinality({i \in DOMAIN calls : calls[i].id = id})]

\* Whether completing self makes the held PeerID one obtained before a
\* Disconnect Event's completion on its slot.
StaleAfter(self) ==
    \/ heldStale
    \/ /\ held # None
       /\ self.type.kind = "Disconnect"
       /\ Unwrap(held).index = self.peer

TakeType ==
    /\ Live
    /\ LET r == take_type(Self, peers)
       IN  /\ peers' = r.peers
           /\ event' = r.self
           /\ last' = [how |-> "take", ev |-> Self, before |-> peers,
                       calls |-> r.calls, ret |-> Some(r.ret),
                       dropRan |-> r.dropRan, other |-> drop(Self, peers).peers,
                       destroyed |-> r.destroyed, leaked |-> r.leaked,
                       steps |-> r.steps]
           /\ cleanups' = Record(cleanups, r.calls)
           /\ IF r.ret.kind = "Receive"
              THEN /\ packet' = Some(r.ret.packet)
                   /\ dangling' = (\E i \in DOMAIN r.destroyed :
                                      r.destroyed[i] = r.ret.packet)
              ELSE UNCHANGED <<packet, dangling>>
    /\ heldStale' = StaleAfter(Self)
    /\ ret' = None
    /\ UNCHANGED <<panicked, held, sys, derefs>>

DropEvent ==
    /\ Live
    /\ LET r == drop(Self, peers)
       IN  /\ peers' = r.peers
           /\ last' = [how |-> "drop", ev |-> Self, before |-> peers,
                       calls |-> r.calls, ret |-> None, dropRan |-> TRUE,
                       other |-> take_type(Self, peers).peers,
                       destroyed |-> r.destroyed, leaked |-> <<>>,
                       steps |-> <<>>]
           /\ cleanups' = Record(cleanups, r.calls)
    /\ event' = None
    /\ heldStale' = StaleAfter(Self)
    /\ ret' = None
    /\ UNCHANGED <<panicked, held, sys, derefs, packet, dangling>>

\* std::mem::forget on the Event, which the documentation warns against.
Forget ==
    /\ Live
    /\ event' = None
    /\ last' = [how |-> "forget", ev |-> Self, before |-> peers,
                calls |-> <<>>, ret |-> None, dropRan |-> FALSE,
                other |-> peers, destroyed |-> <<>>,
                leaked |-> PacketsIn(Self.type), steps |-> <<>>]
    /\ ret' = None
    /\ UNCHANGED <<peers, panicked, held, sys, derefs, heldStale, cleanups,
                   packet, dangling>>

\* The application drops the Packet it took out of a Receive Event.
DropPacket ==
    /\ ~panicked
    /\ packet # None
    /\ packet' = None
    /\ dangling' = FALSE
    /\ UNCHANGED <<peers, event, panicked, held, ret, sys, derefs, heldStale,
                   last, cleanups>>

Next ==
    \/ \E e \in SysEvents : Service(e)
    \/ PeerRef
    \/ \E d \in {None} \cup {Some(x) : x \in Payloads} : PeerMut(d)
    \/ PeerId
    \/ Type
    \/ TakeType
    \/ DropEvent
    \/ Forget
    \/ DropPacket

Spec == Init /\ [][Next]_vars

\* The application that finishes with every Event by a path of the Event
\* API: it inspects the Event, takes its type or lets it go out of scope,
\* and does not leak it.  An Event the application owns is taken or dropped
\* in the end.
NextScoped ==
    \/ \E e \in SysEvents : Service(e)
    \/ PeerRef
    \/ \E d \in {None} \cup {Some(x) : x \in Payloads} : PeerMut(d)
    \/ PeerId
    \/ Type
    \/ TakeType
    \/ DropEvent
    \/ DropPacket

ScopedSpec ==
    Init /\ [][NextScoped]_vars /\ WF_vars(TakeType \/ DropEvent)

\* ------------------------------------------------------- properties
Ended == last.how # "none"
Completed == last.how \in {"take", "drop"}
EndedKind == last.ev.type.kind
EndedSlot == last.ev.peer

\* C1: a Disconnect Event completed by take_type or by drop has invoked
\* Peer::cleanup_after_disconnect on its peer exactly once: the data is
\* gone and the slot generation is one more than before.
C1_CleanupExactlyOnce ==
    (Completed /\ EndedKind = "Disconnect") =>
        /\ Len(last.calls) = 1
        /\ peers[EndedSlot].data = None
        /\ peers[EndedSlot].generation = last.before[EndedSlot].generation + 1

C1_Witness ==
    /\ last.how = "take"
    /\ EndedKind = "Disconnect"
    /\ last.before[EndedSlot].data # None
    /\ last.before[EndedSlot].generation > 0

\* C2: from the same host state, take_type and drop of a Disconnect Event
\* end in the same slot table (data absent, the Event's PeerID not
\* resolving, the other peers as they were); take_type alone returns
\* Disconnect{data} with the reason code of the raw event.
C2_SameEndState ==
    (Completed /\ EndedKind = "Disconnect") =>
        /\ peers = last.other
        /\ peers[EndedSlot].data = None
        /\ Host_peer(peers, last.ev.peer_id) = None
        /\ \A s \in Slots \ {EndedSlot} : peers[s] = last.before[s]
        /\ last.how = "take" => last.ret = Some(Disconnect(sys.data))
        /\ last.how = "drop" => last.ret = None

C2_Witness ==
    /\ last.how = "drop"
    /\ EndedKind = "Disconnect"
    /\ sys.data = 7
    /\ last.before[EndedSlot].data # None
    /\ \E s \in Slots \ {EndedSlot} : peers[s].data # None

\* C3: completing a Connect or Receive Event, by take_type or by drop,
\* invokes no peer cleanup and leaves the bound peer's data and generation
\* as they were.
C3_NoPeerMutation ==
    (Completed /\ EndedKind \in {"Connect", "Receive"}) =>
        /\ last.calls = <<>>
        /\ peers[EndedSlot] = last.before[EndedSlot]

C3_Witness ==
    /\ Completed
    /\ EndedKind = "Receive"
    /\ peers[EndedSlot].data # None
    /\ peers[EndedSlot].generation > 0

\* C4: a PeerID the application obtained before a Disconnect Event on its
\* slot was completed (by take_type or by drop) does not resolve against
\* the Host in any later state.
C4_StalePeerIdFails ==
    heldStale => Host_peer(peers, Unwrap(held)) = None

C4_Witness ==
    /\ heldStale
    /\ last.how = "drop"
    /\ Unwrap(held) = last.ev.peer_id
    /\ Host_peer(last.before, Unwrap(held)) = Some(EndedSlot)

\* The PeerIDs a slot can have had.
PeerIDs == [index : Slots, generation : 0 .. MaxGen]

\* C5: once a slot has been cleaned up and is used again, the PeerID kept
\* from the earlier connection fails to resolve and differs from the
\* PeerID of the live Event on that slot, which resolves to the slot; a
\* PeerID resolves exactly when its generation is the slot's current one.
C5_NoAliasing ==
    /\ \A id \in PeerIDs :
          Host_peer(peers, id) # None <=>
              id.generation = peers[id.index].generation
    /\ Live => Host_peer(peers, Self.peer_id) = Some(Self.peer)
    /\ (Live /\ heldStale /\ Unwrap(held).index = Self.peer) =>
          /\ Unwrap(held) # Self.peer_id
          /\ Host_peer(peers, Unwrap(held)) = None

C5_Witness ==
    /\ Live
    /\ heldStale
    /\ Self.type.kind = "Connect"
    /\ Unwrap(held).index = Self.peer
    /\ Unwrap(held).generation > 0
    /\ Host_peer(peers, Self.peer_id) = Some(Self.peer)

\* C6: the completion of a Disconnect Event leaves every other peer as it
\* was, and every PeerID of another slot resolves after it exactly as
\* before.
C6_OtherPeersUntouched ==
    (Completed /\ EndedKind = "Disconnect") =>
        /\ \A s \in Slots \ {EndedSlot} : peers[s] = last.before[s]
        /\ \A id \in PeerIDs :
              id.index # EndedSlot =>
                  Host_peer(peers, id) = Host_peer(last.before, id)

C6_Witness ==
    /\ Completed
    /\ EndedKind = "Disconnect"
    /\ held # None
    /\ Unwrap(held).index # EndedSlot
    /\ Unwrap(held).generation > 0
    /\ Host_peer(peers, Unwrap(held)) # None
    /\ peers[Unwrap(held).index].data # None

\* C7 as stated: whenever a Disconnect Event no longer exists, its peer has
\* been cleaned up.
C7_EndedImpliesCleaned ==
    (Ended /\ EndedKind = "Disconnect") =>
        /\ Len(last.calls) >= 1
        /\ Host_peer(peers, last.ev.peer_id) = None

\* C7 amended: a Disconnect Event that no longer exists has had its peer
\* cleaned up exactly when it was not ended by std::mem::forget; take_type
\* is the one operation of Event that ends it without the destructor, and
\* it has run the cleanup.
C7_CleanedUnlessForgotten ==
    (Ended /\ EndedKind = "Disconnect") =>
        /\ last.how # "forget" =>
              /\ Len(last.calls) >= 1
              /\ Host_peer(peers, last.ev.peer_id) = None
        /\ last.how = "forget" =>
              /\ last.calls = <<>>
              /\ peers = last.before
        /\ ~last.dropRan => last.how \in {"take", "forget"}

C7_Witness ==
    /\ last.how = "forget"
    /\ EndedKind = "Disconnect"
    /\ peers[EndedSlot].data # None
    /\ Host_peer(peers, last.ev.peer_id) = Some(EndedSlot)

\* The event-kind payload a raw event stands for.
SysKind(e) ==
    IF e.type_ = ENET_EVENT_TYPE_CONNECT THEN "Connect"
    ELSE IF e.type_ = ENET_EVENT_TYPE_DISCONNECT THEN "Disconnect"
    ELSE IF e.type_ = ENET_EVENT_TYPE_RECEIVE THEN "Receive"
    ELSE "none"

\* C8: take_type returns the payload of the raw event the Event was built
\* from: the same data for a Disconnect, the same channel id and packet
\* bytes for a Receive, Connect for a Connect.
C8_TakeTypeReturnsPayload ==
    last.how = "take" =>
        LET r == Unwrap(last.ret)
        IN  /\ r = last.ev.type
            /\ r.kind = SysKind(sys)
            /\ r.kind = "Disconnect" => r.data = sys.data
            /\ r.kind = "Receive" =>
                  /\ r.channel_id = sys.channelID
                  /\ Packet_data(r.packet) = sys.packet

C8_Witness ==
    /\ last.how = "take"
    /\ Unwrap(last.ret).kind = "Receive"
    /\ Unwrap(last.ret).channel_id = 3
    /\ Packet_data(Unwrap(last.ret).packet) = <<1, 2>>

\* C9: an Event is completed by take_type or by drop, never by both and
\* never twice: after take_type the destructor has not run, a completed
\* Event is gone, and while no Event exists no accessor returns, no peer
\* changes and no cleanup or completion is recorded.
C9_Consumed ==
    /\ last.how = "take" => ~last.dropRan
    /\ last.how = "drop" => last.dropRan /\ last.ret = None
    /\ Ended => event = None /\ ret = None

C9_Inert ==
    event = None =>
        /\ ret' = None
        /\ peers' = peers
        /\ cleanups' = cleanups
        /\ last' \in {last, NoLast}

C9_CompletesLiveOnly ==
    (last' # last /\ last' # NoLast) => (event # None /\ event' = None)

C9_SingleCompletion ==
    /\ []C9_Consumed
    /\ [][C9_Inert]_vars
    /\ [][C9_CompletesLiveOnly]_vars

C9_Witness ==
    /\ last.how = "take"
    /\ EndedKind = "Disconnect"
    /\ event = None
    /\ ~last.dropRan
    /\ BagCardinality(cleanups) = 2

\* C10: over the whole run the peer cleanup is invoked at most once for
\* each slot generation, that is for each PeerID an Event can carry, and
\* each invocation acts on the generation its Event was built for.
C10_OncePerGeneration ==
    /\ \A id \in BagToSet(cleanups) : CopiesIn(id, cleanups) = 1
    /\ Ended => \A i \in DOMAIN last.calls :
                    last.calls[i].at = last.calls[i].id.generation

C10_Witness ==
    \E id1, id2 \in BagToSet(cleanups) :
        /\ id1.index = id2.index
        /\ id1.generation # id2.generation
        /\ last.how = "drop"
        /\ EndedKind = "Disconnect"
        /\ last.ev.peer_id = id1

\* C11: building a Disconnect Event changes no peer; while the Event is
\* live its PeerID resolves to its peer, and the peer's data goes from
\* present to absent only by the application's peer_mut() or by the
\* completion of a Disconnect Event on that peer; from that completion
\* on the data is absent until the application attaches data again through
\* the peer_mut() of a later Event on that peer.
C11_LiveResolves ==
    /\ Live => Host_peer(peers, Self.peer_id) = Some(Self.peer)
    /\ (Completed /\ EndedKind = "Disconnect") => peers[EndedSlot].data = None

C11_BuildKeepsPeers ==
    (event = None /\ event' # None) => peers' = peers

C11_DataGoesOnlyBy ==
    \A s \in Slots :
        (peers[s].data # None /\ peers'[s].data = None) =>
            /\ Live
            /\ Self.peer = s
            /\ \/ event' = event
               \/ event' = None /\ Self.type.kind = "Disconnect"
                                /\ last'.how \in {"take", "drop"}

C11_DataComesOnlyBy ==
    \A s \in Slots :
        (peers[s].data = None /\ peers'[s].data # None) =>
            Live /\ Self.peer = s /\ event' = event

C11_CleanupOnlyAtCompletion ==
    /\ []C11_LiveResolves
    /\ [][C11_BuildKeepsPeers]_vars
    /\ [][C11_DataGoesOnlyBy]_vars
    /\ [][C11_DataComesOnlyBy]_vars

C11_Witness ==
    /\ Live
    /\ Self.type.kind = "Disconnect"
    /\ peers[Self.peer].data # None
    /\ Self.peer_id.generation > 0
    /\ Host_peer(peers, Self.peer_id) = Some(Self.peer)

\* The Event a raw event of kind Connect, Disconnect or Receive stands for.
SysType(e) ==
    IF e.type_ = ENET_EVENT_TYPE_CONNECT THEN Connect
    ELSE IF e.type_ = ENET_EVENT_TYPE_DISCONNECT THEN Disconnect(e.data)
    ELSE Receive(e.channelID, [inner |-> e.packet])

Recognized(e) ==
    e.type_ \in {ENET_EVENT_TYPE_CONNECT, ENET_EVENT_TYPE_DISCONNECT,
                 ENET_EVENT_TYPE_RECEIVE}

\* C12: polling is synchronous, so the order of the Events is the order of
\* the raw events: the raw event of the latest poll, when it is a Connect,
\* Disconnect or Receive, has exactly its own Event (same kind, payload and
\* peer), which is live until it ends and is the Event that ends; no Event
\* exists for any other raw event, and an Event appears only by a poll that
\* finds no Event outstanding.
C12_EventOfLatestRaw ==
    /\ (Recognized(sys) /\ ~Ended) =>
          /\ event # None
          /\ Self.type = SysType(sys)
          /\ Self.peer = sys.peer
    /\ (Recognized(sys) /\ Ended) =>
          /\ event = None
          /\ last.ev.type = SysType(sys)
          /\ last.ev.peer = sys.peer
    /\ ~Recognized(sys) => event = None /\ ~Ended

C12_OneEventPerPoll ==
    (event' # None /\ event' # event) =>
        /\ event = None
        /\ Recognized(sys')
        /\ Unwrap(event').type = SysType(sys')
        /\ Unwrap(event').peer = sys'.peer

C12_InOrder ==
    /\ []C12_EventOfLatestRaw
    /\ [][C12_OneEventPerPoll]_vars

C12_Witness ==
    /\ Live
    /\ sys.type_ = ENET_EVENT_TYPE_RECEIVE
    /\ Self.type.kind = "Receive"
    /\ Self.peer = sys.peer
    /\ Self.peer_id.generation > 0
    /\ packet # None

\* C13: while an Event is outstanding no other Event is built: the Event
\* stays as it is until it ends, and until then every change of a peer is
\* a change of the peer the Event is bound to.
C13_SoleEvent ==
    event # None =>
        /\ \/ event' = event
           \/ event' = None /\ last'.how \in {"take", "drop", "forget"}
        /\ \A s \in Slots : peers'[s] # peers[s] => s = Self.peer

C14_EventuallyCleaned ==
    (Live /\ Self.type.kind = "Disconnect") ~>
        /\ Completed
        /\ EndedKind = "Disconnect"
        /\ peers[EndedSlot].data = None
        /\ Host_peer(peers, last.ev.peer_id) = None

C14_Witness ==
    /\ last.how = "drop"
    /\ EndedKind = "Disconnect"
    /\ last.before[EndedSlot].data # None
    /\ held = Some(last.ev.peer_id)
    /\ Host_peer(peers, last.ev.peer_id) = None

\* C15: a raw event of a kind other than None, Connect, Disconnect and
\* Receive panics: the program has stopped exactly when the latest raw
\* event is of such a kind, no Event exists then, and the poll that panics
\* leaves every peer's data and generation and the cleanup record as they
\* were.
C15_Panicked ==
    /\ panicked <=> (sys.type_ # ENET_EVENT_TYPE_NONE /\ ~Recognized(sys))
    /\ panicked => event = None /\ ~Ended

C15_PanicKeepsPeers ==
    (sys' # sys /\ sys'.type_ # ENET_EVENT_TYPE_NONE /\ ~Recognized(sys')) =>
        /\ panicked'
        /\ peers' = peers
        /\ cleanups' = cleanups

C15_Stopped == panicked => UNCHANGED vars

C15_UnrecognizedPanics ==
    /\ []C15_Panicked
    /\ [][C15_PanicKeepsPeers]_vars
    /\ [][C15_Stopped]_vars

C15_Witness ==
    /\ panicked
    /\ sys.type_ = MaxRawKind
    /\ peers[sys.peer].data # None
    /\ peers[sys.peer].generation > 0

\* C16: a poll of a raw event of kind None dereferences no peer handle,
\* builds no Event and changes no peer; a poll of a Connect, Disconnect or
\* Receive builds the Event bound to the peer the handle names, carrying
\* the PeerID the Host gives for that peer at that moment.
C16_NoneTouchesNothing ==
    sys.type_ = ENET_EVENT_TYPE_NONE =>
        derefs = {} /\ event = None /\ ~panicked

C16_Built ==
    (event = None /\ ~panicked /\ (sys' # sys \/ event' # None)) =>
        /\ peers' = peers
        /\ Recognized(sys') =>
              /\ event' # None
              /\ Unwrap(event').peer = sys'.peer
              /\ Unwrap(event').peer_id =
                    [index |-> sys'.peer,
                     generation |-> peers[sys'.peer].generation]
              /\ Host_peer(peers', Unwrap(event').peer_id) = Some(sys'.peer)
              /\ derefs' = {sys'.peer}

C16_FromSysEvent ==
    /\ []C16_NoneTouchesNothing
    /\ [][C16_Built]_vars

C16_Witness ==
    /\ sys.type_ = ENET_EVENT_TYPE_NONE
    /\ sys.peer = NullPeer
    /\ derefs = {}
    /\ \E s \in Slots : peers[s].generation > 0 /\ peers[s].data # None
    /\ held # None

\* C17: take_type runs its steps in this order: the cleanup, decided on the
\* kind the Event was built with; the swap, which leaves Connect in the
\* Event; the forget of the Event, which by then holds Connect.  So the
\* peer cleanup has been invoked exactly when that kind is Disconnect, and
\* the destructor has not run.
C17_StepOrder ==
    last.how = "take" =>
        /\ last.steps = <<[op |-> "cleanup", kind |-> SysKind(sys)],
                          [op |-> "swap", kind |-> "Connect"],
                          [op |-> "forget", kind |-> "Connect"]>>
        /\ Len(last.calls) = (IF SysKind(sys) = "Disconnect" THEN 1 ELSE 0)
        /\ ~last.dropRan
        /\ Unwrap(last.ret).kind = SysKind(sys)

C17_Witness ==
    /\ last.how = "take"
    /\ last.steps[1] = [op |-> "cleanup", kind |-> "Disconnect"]
    /\ last.steps[3] = [op |-> "forget", kind |-> "Connect"]
    /\ Len(last.calls) = 1

\* C18: a live Event is the Event its raw event stands for and stays so
\* under peer(), peer_mut(), peer_id() and r#type(); r#type() returns that
\* type; the Event that ends is still that Event, so a Disconnect Event is a
\* Disconnect when its cleanup is decided; no Event holding the placeholder
\* exists after take_type.
C18_KindAsBuilt ==
    /\ Live => Self.type = SysType(sys) /\ Self.peer = sys.peer
    /\ \A r \in ret : r.op = "type" => r.val = SysType(sys)
    /\ Ended => last.ev.type = SysType(sys) /\ event = None
    /\ (Completed /\ SysKind(sys) = "Disconnect") => Len(last.calls) = 1

C18_EventKept ==
    (event # None /\ event' # None) => event' = event

C18_KindNeverChanges ==
    /\ []C18_KindAsBuilt
    /\ [][C18_EventKept]_vars

C18_Witness ==
    /\ Live
    /\ Self.type.kind = "Disconnect"
    /\ \E r \in ret : r.op = "type" /\ r.val = Disconnect(7)
    /\ held = Some(Self.peer_id)
    /\ peers[Self.peer].data # None

\* C19: a slot's generation changes only in the completion of a Disconnect
\* Event bound to that slot, by take_type or by drop, and then by exactly
\* one; every other step leaves every generation as it is.
C19_GenerationStep ==
    \A s \in Slots :
        peers'[s].generation # peers[s].generation =>
            /\ peers'[s].generation = peers[s].generation + 1
            /\ Live
            /\ Self.peer = s
            /\ Self.type.kind = "Disconnect"
            /\ event' = None
            /\ last'.how \in {"take", "drop"}
            /\ Len(last'.calls) = 1

C19_GenerationMonotone == [][C19_GenerationStep]_vars

C19_Witness ==
    /\ \E s \in Slots : peers[s].generation = MaxGen
    /\ Live
    /\ Self.type.kind = "Receive"
    /\ peers[Self.peer].data # None
    /\ \E r \in ret : r.op = "peer"

\* C20: the Packet of a Receive Event that ends by take_type or by drop has
\* one owner and is destroyed once: dropped with the Event, it is destroyed
\* there and nobody holds it; taken, it is the application's, the forgotten
\* Event holds no Packet and destroys none; the Packet the application
\* holds is never a destroyed one and keeps its bytes, whatever peer
\* cleanup follows.
C20_OneOwner ==
    /\ (Completed /\ EndedKind = "Receive") =>
          LET p == last.ev.type.packet
          IN  /\ last.how = "drop" =>
                    last.destroyed = <<p>> /\ last.leaked = <<>>
              /\ last.how = "take" =>
                    /\ last.destroyed = <<>>
                    /\ last.leaked = <<>>
                    /\ Unwrap(last.ret).packet = p
    /\ (Completed /\ EndedKind # "Receive") =>
          last.destroyed = <<>> /\ last.leaked = <<>>
    /\ (Ended /\ ~Completed) => last.destroyed = <<>>
    /\ packet # None =>
          /\ ~dangling
          /\ Packet_data(Unwrap(packet)) \in SysPackets

\* The step that takes a Receive Event hands its Packet to the caller; the
\* caller's Packet goes away only when the caller drops it or takes the next.
C20_Handed ==
    /\ (Live /\ Self.type.kind = "Receive" /\ last'.how = "take" /\ event' = None)
          => packet' = Some(Self.type.packet)
    /\ (Live /\ Self.type.kind = "Receive" /\ last'.how = "drop" /\ event' = None)
          => packet' = packet
    /\ (packet # None /\ packet' = None) =>
          UNCHANGED <<peers, event, last, cleanups>>

C20_PacketOwnership ==
    /\ []C20_OneOwner
    /\ [][C20_Handed]_vars

C20_Witness ==
    /\ packet # None
    /\ Packet_data(Unwrap(packet)) = <<1, 2>>
    /\ Completed
    /\ EndedKind = "Disconnect"
    /\ Len(last.calls) = 1

====
